---- MODULE Spec2Model ----
(***************************************************************************)
(* A model of LibElectron's Environment.h / Environment.cc: the            *)
(* FunctionBuilder (expression construction, evaluation, diagnostic        *)
(* rendering, teardown), the ExternalAddressCache registry and the         *)
(* Environment handle over a CLIPS engine instance.                        *)
(*                                                                         *)
(* The CLIPS engine itself (clips.h) is not part of the wrapper's source:  *)
(* its primitives are modelled by the operators whose names are the CLIPS  *)
(* names (ExpressionInstall, ExpressionDeinstall, ReturnExpression,        *)
(* GenConstant, GetFunctionReference, EvaluateExpression, ...).            *)
(***************************************************************************)
EXTENDS Integers, Sequences, FiniteSets, TLC

(***************************************************************************)
(* Bounds of the model.                                                    *)
(***************************************************************************)
\* expression nodes the engine may allocate over one run
MaxNodes == 3
\* external address type ids one engine instance may hand out
MaxTypeIds == 2
\* length of the argument chains whose rendering is examined
MaxRenderLen == 2
\* engine instances created over one run
MaxEngines == 2
\* Environment objects constructed over one run
MaxHandles == 2
\* raw addresses the engine's allocator places instances at
MaxEnvAddrs == 2

(***************************************************************************)
(* Pointers.  An EXPRESSION* is NULL, the index of a node in the engine's  *)
(* expression memory, or WILD: an address that is no node at all (one of   *)
(* the values an uninitialised pointer member may hold).                   *)
(***************************************************************************)
NULL == 0
WILD == -1

\* the raw address of the engine instance the FunctionBuilder's handle wraps
BuilderEnvAddr == 1

HostTypes == {"Widget", "Gadget"}
\* the host types the caller of the FunctionBuilder registers
RegisteredTypes == {"Widget"}
FunctionNames == {"echo", "nosuch"}
\* the functions the engine can resolve
DefinedFunctions == {"echo"}

NoError == [kind |-> "none", msg |-> <<>>]
Problem(kind, msg) == [kind |-> kind, msg |-> msg]

\* payload of a constant: an interned number (i), an interned text (s), or an
\* external address hash node (pointer i, type id x)
Val(i, s, x) == [i |-> i, s |-> s, x |-> x]

VARIABLES
  builder,               \* "alive" | "destroyed": the FunctionBuilder object
  functionReferenceSet,  \* FunctionBuilder::functionReferenceSet
  _function,             \* FunctionBuilder::_function
  _ref,                  \* FunctionBuilder::_ref (FUNCTION_REFERENCE)
  curr,                  \* FunctionBuilder::curr
  nodes,                 \* the engine's expression memory: Seq of nodes
  outResult,             \* the DataObject the caller passes to invoke
  lastOp,                \* the last operation, its outcome and engine calls
  crashed,               \* the process died inside the engine
  passed,                \* the leaves handed to successful addArgument calls
  failedAdd,             \* an addArgument failed since setFunctionReference
  _cache,                \* ExternalAddressCache<T>::_cache, one map per T
  engines,               \* engine instances ever created
  handles                \* Environment objects

vars == <<builder, functionReferenceSet, _function, _ref, curr,
          nodes, outResult, lastOp, crashed, passed, failedAdd, _cache,
          engines, handles>>

builderVars == <<builder, functionReferenceSet, _function, _ref,
                 curr, nodes, outResult, crashed, passed, failedAdd>>

(***************************************************************************)
(* The engine's expression memory (CLIPS).                                 *)
(***************************************************************************)
\* struct expr, with the engine's bookkeeping per node: installs, deinstalls
\* and frees
Node(type, value) ==
  [type |-> type, value |-> value, nextArg |-> NULL,
   inst |-> 0, deinst |-> 0, freed |-> 0]

\* the nodes reached from p by nextArg
RECURSIVE Chain(_, _)
Chain(ns, p) ==
  IF p \notin DOMAIN ns THEN <<>> ELSE <<p>> \o Chain(ns, ns[p].nextArg)

\* GenConstant: a fresh node, appended to the expression memory
GenConstant(ns, type, value) == Append(ns, Node(type, value))

\* ExpressionInstall / ExpressionDeinstall: walk the expression, counting each node
ExpressionInstall(ns, p) ==
  LET c == Chain(ns, p)
      hit == {c[k] : k \in DOMAIN c}
  IN [n \in DOMAIN ns |->
        IF n \in hit THEN [ns[n] EXCEPT !.inst = @ + 1] ELSE ns[n]]

ExpressionDeinstall(ns, p) ==
  LET c == Chain(ns, p)
      hit == {c[k] : k \in DOMAIN c}
  IN [n \in DOMAIN ns |->
        IF n \in hit THEN [ns[n] EXCEPT !.deinst = @ + 1] ELSE ns[n]]

\* ReturnExpression: give every node of the list back to the allocator
ReturnExpression(ns, p) ==
  LET c == Chain(ns, p)
      hit == {c[k] : k \in DOMAIN c}
  IN [n \in DOMAIN ns |->
        IF n \in hit THEN [ns[n] EXCEPT !.freed = @ + 1] ELSE ns[n]]

\* GetFunctionReference: clears the reference, then resolves the name
GetFunctionReference(name) ==
  LET found == name \in DefinedFunctions
  IN [result |-> found,
      ref |-> [init |-> TRUE,
               type |-> IF found THEN "FCALL" ELSE "RVOID",
               value |-> IF found THEN name ELSE "",
               argList |-> NULL]]

\* EvaluateExpression: TRUE when an evaluation error occurred; the result is
\* written in either case ("echo" returns its first argument)
EvaluateExpression(ns, ref, evaluationError) ==
  [result |-> evaluationError,
   ret |-> IF ~evaluationError /\ ref.argList \in DOMAIN ns
           THEN [written |-> TRUE, type |-> ns[ref.argList].type,
                 value |-> ns[ref.argList].value]
           ELSE [written |-> TRUE, type |-> "SYMBOL",
                 value |-> Val(0, "FALSE", 0)]]

EnvTrueSymbol == Val(0, "TRUE", 0)
EnvFalseSymbol == Val(0, "FALSE", 0)
EnvAddSymbol(text) == Val(0, text, 0)
EnvAddLong(n) == Val(n, "", 0)
EnvAddDouble(n) == Val(n, "", 0)
EnvAddExternalAddress(p, id) == Val(p, "", id)

Unwritten == [written |-> FALSE, type |-> "", value |-> Val(0, "", 0)]

(***************************************************************************)
(* Environment: the thin wrappers over the engine primitives.              *)
(***************************************************************************)
installExpression(ns, p) == ExpressionInstall(ns, p)
deinstallExpression(ns, p) == ExpressionDeinstall(ns, p)
reclaimExpressionList(ns, p) == ReturnExpression(ns, p)
generateConstantExpression(ns, type, value) == GenConstant(ns, type, value)

\* evaluateExpression with the engine's result taken as it is, not negated
evaluateExpression_NotNegated(ns, ref, evaluationError) ==
  LET r == EvaluateExpression(ns, ref, evaluationError)
  IN [noError |-> r.result = TRUE, ret |-> r.ret]

\* "check and see if we did not get an evaluation error"
evaluateExpression(ns, ref, evaluationError) ==
  LET r == EvaluateExpression(ns, ref, evaluationError)
  IN [noError |-> r.result # TRUE, ret |-> r.ret]

generateFunctionExpression(name) ==
  LET r == GetFunctionReference(name)
  IN [found |-> r.result = TRUE, ref |-> r.ref]

addSymbol(text) == EnvAddSymbol(text)
addNumber(n) == EnvAddLong(n)
addNumberDouble(n) == EnvAddDouble(n)

(***************************************************************************)
(* ExternalAddressCache<T>: a std::map<void*, int> per host type T.        *)
(***************************************************************************)
\* getExternalAddressId(void* env)
getExternalAddressId(cache, T, env) ==
  IF env \in DOMAIN cache[T]
  THEN [err |-> NoError, id |-> cache[T][env]]
  ELSE [err |-> Problem("UnregisteredType",
          <<"Attempted to get the external address index of something not registered from using an unregistered environment!">>),
        id |-> 0]

\* a registration that replaces the map of T by the one new entry
registerExternalAddressId_ForgetsOthers(cache, T, env, result) ==
  [cache EXCEPT ![T] = (env :> result)]

\* registerExternalAddressId(void* env, int result): std::map::emplace
registerExternalAddressId(cache, T, env, result) ==
  IF env \in DOMAIN cache[T]
  THEN cache
  ELSE [cache EXCEPT ![T] = (env :> result) @@ @]

\* Environment::addExternalAddress<T>(T* value)
addExternalAddress(cache, env, T, p) ==
  LET r == getExternalAddressId(cache, T, env)
  IN IF r.err.kind # "none"
     THEN [err |-> r.err, value |-> Val(0, "", 0)]
     ELSE [err |-> NoError, value |-> EnvAddExternalAddress(p, r.id)]

\* Environment::externalAddressIsOfType<T>(DataObjectPtr ptr): the type id in
\* the external address hash node against the id looked up for T
externalAddressIsOfType(cache, env, T, ptr) ==
  LET r == getExternalAddressId(cache, T, env)
  IN [err |-> r.err, is |-> r.err.kind = "none" /\ ptr.value.x = r.id]

\* a cast that trusts the caller: the pointer of the value, whatever its tag
fromExternalAddress_Unchecked(cache, env, T, ptr) ==
  [err |-> NoError, p |-> ptr.value.i]

\* Environment::fromExternalAddress<T>(DataObjectPtr ptr)
fromExternalAddress(cache, env, T, ptr) ==
  LET r == externalAddressIsOfType(cache, env, T, ptr)
  IN IF r.err.kind # "none" THEN [err |-> r.err, p |-> NULL]
     ELSE IF r.is THEN [err |-> NoError, p |-> ptr.value.i]
     ELSE [err |-> Problem("TypeMismatch",
                     <<"Attempted to cast external address to ", T,
                       " when it is not tagged as such!">>),
           p |-> NULL]

(***************************************************************************)
(* std::stringstream: the text written so far (a sequence of tokens; the   *)
(* digits of a number are one token each) and the stream's basefield flag. *)
(***************************************************************************)
NewStream == [out |-> <<>>, hex |-> FALSE]

HexDigits == <<"0", "1", "2", "3", "4", "5", "6", "7",
               "8", "9", "a", "b", "c", "d", "e", "f">>

\* the digits of n >= 0 in base b
RECURSIVE ToBase(_, _)
ToBase(n, b) ==
  IF n < b THEN <<HexDigits[n + 1]>>
  ELSE Append(ToBase(n \div b, b), HexDigits[(n % b) + 1])

\* the 16 hex digits of the 64-bit two's complement of n < 0: the digits of
\* -n - 1, padded with zeros, each one complemented
OnesComplementHex(m) ==
  LET d == ToBase(m, 16)
      pad == [k \in 1..(16 - Len(d)) |-> "f"]
      digitValue(c) == CHOOSE v \in 0..15 : HexDigits[v + 1] = c
  IN pad \o [k \in 1..Len(d) |-> HexDigits[(15 - digitValue(d[k])) + 1]]

\* operator<<(long long): decimal, or hexadecimal when std::hex is in force
\* (a negative value is then written as its unsigned 64-bit pattern)
InsertInteger(stream, n) ==
  [stream EXCEPT !.out = @ \o
     (IF stream.hex
      THEN (IF n >= 0 THEN ToBase(n, 16) ELSE OnesComplementHex(-n - 1))
      ELSE (IF n >= 0 THEN ToBase(n, 10) ELSE <<"-">> \o ToBase(-n, 10)))]

\* operator<<(double), default format (%g, precision 6), of the value h/100;
\* the basefield flag does not apply to floating point
InsertDouble(stream, h) ==
  LET a == IF h < 0 THEN -h ELSE h
      whole == ToBase(a \div 100, 10)
      frac == a % 100
      digits == IF frac = 0 THEN whole
                ELSE IF frac % 10 = 0
                     THEN whole \o <<".">> \o ToBase(frac \div 10, 10)
                     ELSE whole \o <<".">> \o ToBase(frac \div 10, 10)
                                \o ToBase(frac % 10, 10)
  IN [stream EXCEPT !.out = @ \o (IF h < 0 THEN <<"-">> ELSE <<>>) \o digits]

\* operator<<(const void*): always hexadecimal with the base shown; the
\* stream's own flags are restored afterwards
InsertPointer(stream, p) ==
  [stream EXCEPT !.out = @ \o
     (IF p = 0 THEN <<"0">> ELSE <<"0x">> \o ToBase(p, 16))]

InsertText(stream, text) == [stream EXCEPT !.out = Append(@, text)]

\* operator<<(std::hex)
InsertHex(stream) == [stream EXCEPT !.hex = TRUE]

\* the address held in an EXPRESSION's value field: the hash node the engine
\* allocated for an external address, else the raw pointer itself
PointerOf(value) ==
  IF value.x # 0 THEN 256 + 16 * value.i + value.x ELSE value.i

DOPToString(node) == node.value.s
DOPToInteger(node) == node.value.i
DOPToDouble(node) == node.value.i

(***************************************************************************)
(* FunctionBuilder::invoke, the diagnostic reconstruction of the call.     *)
(***************************************************************************)
\* a body closure passed to the lambdas of invoke: the statement it runs
\* on the stream and the value it captured
Body(fn, captured) == [fn |-> fn, captured |-> captured]

\* body(command): run the closure on the shared command stream
CallBody(body, stream) ==
  CASE body.fn = "text" -> InsertText(stream, body.captured)
    [] body.fn = "integer" -> InsertInteger(stream, body.captured)
    [] body.fn = "double" -> InsertDouble(stream, body.captured)
    [] body.fn = "address" -> InsertPointer(InsertHex(stream), body.captured)

\* the lambda installArgument(prefix, body, suffix) of invoke
RenderInstallArgument(command, prefix, body, suffix) ==
  LET c1 == InsertText(InsertText(command, " "), prefix)
      c2 == CallBody(body, c1)
  IN InsertText(InsertText(c2, suffix), " ")

\* the lambda installAddress(type, value) of invoke
RenderInstallAddress(command, type, value) ==
  RenderInstallArgument(command, type \o "<0x",
                        Body("address", PointerOf(value)), ">")

\* one iteration of the loop over _ref.argList: the switch on args->type
RenderNode(command, args) ==
  LET str == Body("text", DOPToString(args))
      int == Body("integer", DOPToInteger(args))
      dbl == Body("double", DOPToDouble(args))
  IN CASE args.type = "STRING" -> RenderInstallArgument(command, "\"", str, "\"")
       [] args.type = "SYMBOL" -> RenderInstallArgument(command, "", str, "")
       [] args.type = "INSTANCE_NAME" -> RenderInstallArgument(command, "[", str, "]")
       [] args.type = "INTEGER" -> RenderInstallArgument(command, "", int, "")
       [] args.type = "FLOAT" -> RenderInstallArgument(command, "", dbl, "")
       [] args.type = "INSTANCE_ADDRESS" ->
            RenderInstallAddress(command, "InstanceAddress", args.value)
       [] args.type = "EXTERNAL_ADDRESS" ->
            RenderInstallAddress(command, "ExternalAddress", args.value)
       [] args.type = "MULTIFIELD" ->
            RenderInstallAddress(command, "MULTIFIELD", args.value)
       [] OTHER -> RenderInstallAddress(command, "UNKNOWN_TYPE", args.value)

\* for (auto args = _ref.argList; args; args = args->nextArg)
RECURSIVE RenderArguments(_, _, _)
RenderArguments(command, ns, p) ==
  IF p \notin DOMAIN ns THEN command
  ELSE RenderArguments(RenderNode(command, ns[p]), ns, ns[p].nextArg)

\* command << "(" << _function << " "; the loop; command << ")"
RenderCommand(function, ns, argList) ==
  LET c0 == InsertText(InsertText(InsertText(NewStream, "("), function), " ")
  IN InsertText(RenderArguments(c0, ns, argList), ")").out

\* the message of the Problem a failed invoke throws
InvocationMessage(function, ns, argList) ==
  <<"ERROR: invocation of ">> \o RenderCommand(function, ns, argList)
     \o <<" yielded an error!">>

(***************************************************************************)
(* Host arguments of addArgument.  k is the overload; i, s, t carry the    *)
(* value (a number, a text, a host type or a raw tag); items are the       *)
(* elements of a sequence.                                                 *)
(***************************************************************************)
Arg(k, i, s, t, items) == [k |-> k, i |-> i, s |-> s, t |-> t, items |-> items]
NoArg == Arg("", 0, "", "", <<>>)

SequenceKinds == {"list", "vector", "initializer_list", "variadic", "collection"}

AInt == Arg("int32", 255, "", "", <<>>)
AStr == Arg("string", 0, "s", "", <<>>)
AWidget == Arg("ptr", 2, "", "Widget", <<>>)
AGadget == Arg("ptr", 3, "", "Gadget", <<>>)

ScalarInputs == {AInt, AStr, AWidget, AGadget}

SequenceInputs ==
  { Arg("list", 0, "", "", <<>>),
    Arg("vector", 0, "", "", <<AInt, AStr>>),
    Arg("list", 0, "", "", << Arg("vector", 0, "", "", <<AStr>>),
                              Arg("vector", 0, "", "", <<>>),
                              Arg("vector", 0, "", "", <<AWidget, AInt>>) >>),
    Arg("variadic", 0, "", "", <<AInt, AGadget>>),
    Arg("collection", 0, "", "", <<AStr, AInt>>) }

ArgInputs == ScalarInputs \cup SequenceInputs

\* the leaves of an argument, in iteration order
RECURSIVE Leaves(_)
Leaves(a) ==
  IF a.k \in SequenceKinds
  THEN LET RECURSIVE cat(_)
           cat(k) == IF k > Len(a.items) THEN <<>>
                     ELSE Leaves(a.items[k]) \o cat(k + 1)
       IN cat(1)
  ELSE <<a>>

(***************************************************************************)
(* FunctionBuilder.  The operators below work on a record m holding the    *)
(* fields an operation reads and writes: functionReferenceSet, the head    *)
(* _ref.argList, curr, the engine's expression memory, the exception in    *)
(* flight (err) and the engine primitives called so far.                   *)
(***************************************************************************)
Machine ==
  [functionReferenceSet |-> functionReferenceSet, argList |-> _ref.argList,
   curr |-> curr, nodes |-> nodes, err |-> NoError, calls |-> <<>>]

\* installArgument without the functionReferenceSet check
installArgument_Unchecked(m, type, value) ==
  LET tmp == Len(m.nodes) + 1
      installed == installExpression(
                     generateConstantExpression(m.nodes, type, value), tmp)
      called == m.calls \o <<"GenConstant", "ExpressionInstall">>
  IN IF m.argList \notin DOMAIN m.nodes
     THEN [m EXCEPT !.nodes = installed, !.argList = tmp, !.curr = tmp,
                    !.calls = called]
     ELSE [m EXCEPT !.nodes = [installed EXCEPT ![m.curr].nextArg = tmp],
                    !.curr = tmp, !.calls = called]

\* installArgument that links the new node but leaves curr where it was
installArgument_TailNotAdvanced(m, type, value) ==
  IF m.functionReferenceSet
  THEN LET tmp == Len(m.nodes) + 1
           installed == installExpression(
                          generateConstantExpression(m.nodes, type, value), tmp)
           called == m.calls \o <<"GenConstant", "ExpressionInstall">>
       IN IF m.argList = NULL
          THEN [m EXCEPT !.nodes = installed, !.argList = tmp, !.curr = tmp,
                         !.calls = called]
          ELSE [m EXCEPT !.nodes = [installed EXCEPT ![m.curr].nextArg = tmp],
                         !.calls = called]
  ELSE [m EXCEPT !.err = Problem("BuilderMisuse",
          <<"ERROR: Attempted to build an argument list before setting the target function!">>)]

\* FunctionBuilder::installArgument(uint16 type, void* value)
installArgument(m, type, value) ==
  IF m.functionReferenceSet
  THEN LET tmp == Len(m.nodes) + 1
           generated == generateConstantExpression(m.nodes, type, value)
           installed == installExpression(generated, tmp)
           called == m.calls \o <<"GenConstant", "ExpressionInstall">>
       IN IF m.argList = NULL
          THEN [m EXCEPT !.nodes = installed, !.argList = tmp, !.curr = tmp,
                         !.calls = called]
          ELSE [m EXCEPT !.nodes = [installed EXCEPT ![m.curr].nextArg = tmp],
                         !.curr = tmp, !.calls = called]
  ELSE [m EXCEPT !.err = Problem("BuilderMisuse",
          <<"ERROR: Attempted to build an argument list before setting the target function!">>)]

\* addArgument(T*) that ignores a failed registry lookup
addArgumentPointer_LookupIgnored(m, a) ==
  installArgument(m, "EXTERNAL_ADDRESS",
                  addExternalAddress(_cache, BuilderEnvAddr, a.t, a.i).value)

\* FunctionBuilder::addArgument(T*)
addArgumentPointer(m, a) ==
  LET r == addExternalAddress(_cache, BuilderEnvAddr, a.t, a.i)
  IN IF r.err.kind # "none"
     THEN [m EXCEPT !.err = r.err]
     ELSE installArgument(m, "EXTERNAL_ADDRESS", r.value)

\* std::string::c_str() read as a C string.  A std::string argument is its
\* text up to the first NUL character (s) and the number of characters from
\* that NUL on (i, 0 when the string holds no NUL); the C string is the text.
c_str(str) == str.s

\* FunctionBuilder::addArgument(bool / int32 / int64 / float / double /
\* const char* / const std::string&) and the raw installArgument
addArgumentScalar(m, a) ==
  CASE a.k = "bool" ->
         installArgument(m, "SYMBOL", IF a.i # 0 THEN EnvTrueSymbol ELSE EnvFalseSymbol)
    [] a.k \in {"int32", "int64"} -> installArgument(m, "INTEGER", addNumber(a.i))
    [] a.k \in {"float", "double"} -> installArgument(m, "FLOAT", addNumberDouble(a.i))
    [] a.k = "cstr" -> installArgument(m, "STRING", addSymbol(a.s))
    [] a.k = "string" -> installArgument(m, "STRING", addSymbol(c_str(a)))
    [] a.k = "ptr" -> addArgumentPointer(m, a)
    [] OTHER -> installArgument(m, a.t, Val(a.i, a.s, 0))

\* FunctionBuilder::addArgument(list / vector / initializer_list / First, Args...
\* / collection): each element in turn, until one throws
RECURSIVE addArgument(_, _)
addArgument(m, a) ==
  IF a.k \in SequenceKinds
  THEN LET RECURSIVE each(_, _)
           each(mm, k) ==
             IF k > Len(a.items) \/ mm.err.kind # "none" THEN mm
             ELSE each(addArgument(mm, a.items[k]), k + 1)
       IN each(m, 1)
  ELSE addArgumentScalar(m, a)

\* setFunctionReference that marks the reference set before it is resolved
setFunctionReference_SetBeforeResolved(func) ==
  LET r == generateFunctionExpression(func)
  IN [ref |-> r.ref, function |-> func, functionReferenceSet |-> TRUE,
      err |-> IF ~r.found
              THEN Problem("UnknownFunction",
                           <<"Function ", func, " does not exist!!!!">>)
              ELSE NoError]

\* FunctionBuilder::setFunctionReference(const std::string& func): what it
\* leaves in _ref, _function and functionReferenceSet, and what it throws
setFunctionReference(func) ==
  LET r == generateFunctionExpression(func)
  IN IF ~r.found
     THEN [ref |-> r.ref, function |-> _function,
           functionReferenceSet |-> functionReferenceSet,
           err |-> Problem("UnknownFunction",
                           <<"Function ", func, " does not exist!!!!">>)]
     ELSE [ref |-> r.ref, function |-> func, functionReferenceSet |-> TRUE,
           err |-> NoError]

\* invoke without the functionReferenceSet check
invoke_Unguarded(evaluationError) ==
  LET r == evaluateExpression(nodes, _ref, evaluationError)
  IN [err |-> IF ~r.noError
              THEN Problem("Invocation",
                     InvocationMessage(_function, nodes, _ref.argList))
              ELSE NoError,
      calls |-> <<"EvaluateExpression">>, ret |-> r.ret]

\* FunctionBuilder::invoke(DataObjectPtr ret): what it throws, the engine
\* primitives it calls and what it leaves in *ret
invoke(evaluationError) ==
  IF ~functionReferenceSet
  THEN [err |-> Problem("BuilderMisuse",
          <<"ERROR: attempted to invoke a function builder without setting its function!">>),
        calls |-> <<>>, ret |-> outResult]
  ELSE LET r == evaluateExpression(nodes, _ref, evaluationError)
       IN [err |-> IF ~r.noError
                   THEN Problem("Invocation",
                          InvocationMessage(_function, nodes, _ref.argList))
                   ELSE NoError,
           calls |-> <<"EvaluateExpression">>, ret |-> r.ret]

\* the record of an operation: its name, its inputs (an argument, a name, a
\* handle), what it threw, the engine primitives it called in order, and what
\* the engine returned (raw, id)
Op(op, a, name, h, err, calls, raw, id) ==
  [op |-> op, arg |-> a, name |-> name, h |-> h, err |-> err,
   calls |-> calls, raw |-> raw, id |-> id]

\* the values the uninitialised _ref.argList may hold when the FunctionBuilder
\* is constructed: null, or an address that is no node
Garbage == {NULL, WILD}

SetFunctionReference(func) ==
  /\ builder = "alive" /\ ~crashed
  /\ LET r == setFunctionReference(func)
     IN /\ _ref' = r.ref
        /\ _function' = r.function
        /\ functionReferenceSet' = r.functionReferenceSet
        /\ lastOp' = Op("setFunctionReference", NoArg, func, 0, r.err,
                        <<"GetFunctionReference">>, "", 0)
  /\ passed' = <<>>
  /\ failedAdd' = FALSE
  /\ UNCHANGED <<builder, curr, nodes, outResult, crashed, _cache, engines,
                 handles>>

\* FunctionBuilder::addArgument(a), any overload
AddArgument(a) ==
  /\ builder = "alive" /\ ~crashed
  /\ Len(nodes) + Len(Leaves(a)) <= MaxNodes
  /\ LET m == addArgument(Machine, a)
     IN /\ nodes' = m.nodes
        /\ _ref' = [_ref EXCEPT !.argList = m.argList]
        /\ curr' = m.curr
        /\ lastOp' = Op("addArgument", a, "", 0, m.err, m.calls, "", 0)
        /\ passed' = IF m.err.kind = "none" THEN passed \o Leaves(a) ELSE passed
        /\ failedAdd' = (failedAdd \/ m.err.kind # "none")
  /\ UNCHANGED <<builder, functionReferenceSet, _function, outResult,
                 crashed, _cache, engines, handles>>

Invoke(evaluationError) ==
  /\ builder = "alive" /\ ~crashed
  /\ LET r == invoke(evaluationError)
     IN /\ outResult' = r.ret
        /\ lastOp' = Op("invoke", NoArg, "", 0, r.err, r.calls,
                        IF evaluationError THEN "TRUE" ELSE "FALSE", 0)
  /\ UNCHANGED <<builder, functionReferenceSet, _function, _ref, curr, nodes,
                 crashed, passed, failedAdd, _cache, engines, handles>>

\* FunctionBuilder::~FunctionBuilder(): the engine walks _ref; an address that
\* is no node at all kills the process inside ExpressionDeinstall
Destroy ==
  /\ builder = "alive" /\ ~crashed
  /\ IF _ref.argList = WILD
     THEN /\ crashed' = TRUE
          /\ lastOp' = Op("~FunctionBuilder", NoArg, "", 0, NoError,
                          <<"ExpressionDeinstall">>, "", 0)
          /\ UNCHANGED <<builder, _ref, curr, nodes>>
     ELSE /\ nodes' = reclaimExpressionList(
                        deinstallExpression(nodes, _ref.argList), _ref.argList)
          /\ _ref' = [_ref EXCEPT !.argList = NULL]
          /\ curr' = NULL
          /\ builder' = "destroyed"
          /\ lastOp' = Op("~FunctionBuilder", NoArg, "", 0, NoError,
                          <<"ExpressionDeinstall", "ReturnExpression">>, "", 0)
          /\ UNCHANGED crashed
  /\ UNCHANGED <<functionReferenceSet, _function, outResult, passed,
                 failedAdd, _cache, engines, handles>>

(***************************************************************************)
(* Environment and the registry.                                           *)
(***************************************************************************)
\* the live engine instance at a raw address (0 when there is none)
EngineAt(addr) ==
  IF \E e \in DOMAIN engines : engines[e].addr = addr /\ engines[e].alive
  THEN CHOOSE e \in DOMAIN engines : engines[e].addr = addr /\ engines[e].alive
  ELSE 0

\* Environment::registerExternalAddressType<T>(description): the engine's
\* InstallExternalAddressType hands out the instance's next type id
RegisterExternalAddressType(h, T) ==
  /\ ~crashed
  /\ h \in DOMAIN handles /\ handles[h].live
  /\ EngineAt(handles[h].env) # 0
  /\ LET e == EngineAt(handles[h].env)
         result == engines[e].nextId
     IN /\ result <= MaxTypeIds
        /\ engines' = [engines EXCEPT ![e].nextId = @ + 1,
                         ![e].registered = @ \cup {T}]
        /\ _cache' = registerExternalAddressId(_cache, T, handles[h].env, result)
        /\ lastOp' = Op("registerExternalAddressType", NoArg, T, h, NoError,
                        <<"InstallExternalAddressType">>, "", result)
  /\ UNCHANGED <<builderVars, handles>>

(***************************************************************************)
(* Spec: one engine instance, one owning handle and one FunctionBuilder    *)
(* over it, from its construction to its destruction.  The caller         *)
(* registers a host type at most once.                                     *)
(***************************************************************************)
Init ==
  /\ builder = "alive"
  /\ functionReferenceSet = FALSE
  /\ _function = ""
  /\ _ref \in {[init |-> FALSE, type |-> "", value |-> "", argList |-> g] :
                 g \in Garbage}
  /\ curr = NULL
  /\ nodes = <<>>
  /\ outResult = Unwritten
  /\ lastOp = Op("FunctionBuilder", NoArg, "", 0, NoError, <<>>, "", 0)
  /\ crashed = FALSE
  /\ passed = <<>>
  /\ failedAdd = FALSE
  /\ _cache = [T \in HostTypes |-> <<>>]
  /\ engines = <<[addr |-> BuilderEnvAddr, alive |-> TRUE, destroyCalls |-> 0,
                  nextId |-> 1, registered |-> {}]>>
  /\ handles = <<[env |-> BuilderEnvAddr, reclaim |-> TRUE, live |-> TRUE,
                  created |-> TRUE, eng |-> 1]>>

Next ==
  \/ \E func \in FunctionNames : SetFunctionReference(func)
  \/ \E a \in ArgInputs : AddArgument(a)
  \/ \E evaluationError \in BOOLEAN : Invoke(evaluationError)
  \/ Destroy
  \/ \E T \in RegisteredTypes :
       /\ BuilderEnvAddr \notin DOMAIN _cache[T]
       /\ RegisterExternalAddressType(1, T)

Spec == Init /\ [][Next]_vars

(***************************************************************************)
(* The FunctionBuilder's properties.                                       *)
(***************************************************************************)
\* the chain from _ref.argList, as the constants it holds
ChainConstants ==
  LET c == Chain(nodes, _ref.argList)
  IN [k \in DOMAIN c |-> [type |-> nodes[c[k]].type, value |-> nodes[c[k]].value]]

\* C1: once the FunctionBuilder has been torn down, every expression node it
\* installed has been installed once and deinstalled once, and the teardown
\* handed the engine nothing but those nodes.
C1_InstallDeinstallBalance ==
  lastOp.op = "~FunctionBuilder" =>
    /\ ~crashed
    /\ \A n \in DOMAIN nodes : nodes[n].inst = 1 /\ nodes[n].deinst = 1

\* C2: the teardown of a FunctionBuilder calls the engine's deinstall once,
\* then its reclaim once, and leaves the head and tail pointers null.
C2_TeardownOrder ==
  lastOp.op = "~FunctionBuilder" =>
    /\ lastOp.calls = <<"ExpressionDeinstall", "ReturnExpression">>
    /\ _ref.argList = NULL
    /\ curr = NULL

\* an addArgument step on a builder whose function reference is not set
UnboundAddStep == lastOp'.op = "addArgument" /\ ~functionReferenceSet

\* such a step generates, installs and links nothing and leaves the builder Unbound
UnboundAddChangesNothing ==
  /\ nodes' = nodes /\ _ref' = _ref /\ curr' = curr
  /\ lastOp'.calls = <<>>
  /\ ~functionReferenceSet'

\* C3 as claimed: every addArgument on a builder whose function reference is
\* not set fails with BuilderMisuseError and changes nothing.
C3_UnboundAddIsMisuse ==
  [][UnboundAddStep =>
       lastOp'.err.kind = "BuilderMisuse" /\ UnboundAddChangesNothing]_vars

\* what an addArgument on an Unbound builder throws: the first leaf decides
UnboundAddError(a) ==
  IF Leaves(a) = <<>> THEN "none"
  ELSE LET first == Leaves(a)[1]
       IN IF first.k = "ptr" /\ BuilderEnvAddr \notin DOMAIN _cache[first.t]
          THEN "UnregisteredType"
          ELSE "BuilderMisuse"

\* C3 as amended: an addArgument on a builder whose function reference is not
\* set changes nothing; it fails with BuilderMisuseError, except that a pointer
\* of an unregistered host type fails with UnregisteredTypeError and a
\* sequence without elements returns normally.
C3_UnboundAddChangesNothing ==
  [][UnboundAddStep =>
       /\ lastOp'.err.kind = UnboundAddError(lastOp'.arg)
       /\ UnboundAddChangesNothing]_vars

C3_Witness ==
  /\ lastOp.op = "addArgument" /\ ~functionReferenceSet
  /\ lastOp.err.kind = "BuilderMisuse"
  /\ lastOp.arg.k = "ptr"

\* C4: invoke on a builder whose function reference is not set fails with
\* BuilderMisuseError; the engine is not called, the output is not written and
\* the process lives on.
C4_UnboundInvokeIsMisuse ==
  [][lastOp'.op = "invoke" /\ ~functionReferenceSet =>
       /\ lastOp'.err.kind = "BuilderMisuse"
       /\ lastOp'.calls = <<>>
       /\ outResult' = outResult
       /\ ~crashed' /\ builder' = "alive"]_vars

C4_Witness ==
  /\ lastOp.op = "invoke" /\ lastOp.err.kind = "BuilderMisuse"
  /\ ~outResult.written

C6_InvokeFollowsEngine ==
  [][lastOp'.op = "invoke" /\ functionReferenceSet =>
       LET engineError == (lastOp'.raw = "TRUE")
       IN /\ lastOp'.calls = <<"EvaluateExpression">>
          /\ (lastOp'.err = NoError) <=> ~engineError
          /\ engineError => lastOp'.err.kind = "Invocation"
          /\ outResult' = EvaluateExpression(nodes, _ref, engineError).ret
          /\ outResult'.written]_vars

C6_Witness ==
  /\ lastOp.op = "invoke" /\ functionReferenceSet
  /\ lastOp.err.kind = "Invocation"
  /\ Len(Chain(nodes, _ref.argList)) >= 2

\* the constant an argument leaf becomes: booleans the TRUE/FALSE symbols,
\* integers INTEGER, floats FLOAT, texts STRING, host pointers
\* EXTERNAL_ADDRESS under the id registered for their type
LeafConstant(l) ==
  CASE l.k = "bool" ->
         [type |-> "SYMBOL", value |-> Val(0, IF l.i # 0 THEN "TRUE" ELSE "FALSE", 0)]
    [] l.k \in {"int32", "int64"} -> [type |-> "INTEGER", value |-> Val(l.i, "", 0)]
    [] l.k \in {"float", "double"} -> [type |-> "FLOAT", value |-> Val(l.i, "", 0)]
    [] l.k \in {"cstr", "string"} -> [type |-> "STRING", value |-> Val(0, l.s, 0)]
    [] l.k = "ptr" ->
         [type |-> "EXTERNAL_ADDRESS",
          value |-> Val(l.i, "", _cache[l.t][BuilderEnvAddr])]
    [] OTHER -> [type |-> l.t, value |-> Val(l.i, l.s, 0)]

\* C8: on a FunctionSet builder, after successful addArgument calls, the chain
\* from head to tail is the leaves of the arguments added since the function
\* reference was set, in call order and, within a sequence, in iteration
\* order (nested sequences flattened); the tail pointer is the last node.
C8_ChainIsArgumentsInOrder ==
  builder = "alive" /\ functionReferenceSet /\ ~failedAdd =>
    /\ ChainConstants = [k \in DOMAIN passed |-> LeafConstant(passed[k])]
    /\ passed # <<>> =>
         curr = Chain(nodes, _ref.argList)[Len(passed)]

C8_Witness ==
  /\ builder = "alive" /\ functionReferenceSet /\ ~failedAdd
  /\ lastOp.op = "addArgument" /\ lastOp.arg.k = "list"
  /\ Len(lastOp.arg.items) = 3
  /\ Len(passed) = 3
  /\ Len(Chain(nodes, _ref.argList)) = 3

\* an addArgument(T*) step on a FunctionSet builder
PointerAddStep ==
  lastOp'.op = "addArgument" /\ lastOp'.arg.k = "ptr" /\ functionReferenceSet

\* C9 as claimed: adding a pointer whose host type is not registered for the
\* engine instance registers the type and appends one external address node.
C9_PointerRegistersOnFirstUse ==
  [][PointerAddStep /\ BuilderEnvAddr \notin DOMAIN _cache[lastOp'.arg.t] =>
       /\ lastOp'.err = NoError
       /\ BuilderEnvAddr \in DOMAIN _cache'[lastOp'.arg.t]
       /\ Len(nodes') = Len(nodes) + 1
       /\ nodes'[Len(nodes')].type = "EXTERNAL_ADDRESS"]_vars

\* C9 as amended: on a FunctionSet builder, adding a pointer of a registered
\* host type appends one external address node, the tail, carrying the id the
\* registry holds for the type (so every pointer of the type carries the same
\* id); adding a pointer of an unregistered type fails with
\* UnregisteredTypeError and appends nothing.  Neither registers anything.
C9_PointerNeedsRegisteredType ==
  [][PointerAddStep =>
       LET T == lastOp'.arg.t
           registered == BuilderEnvAddr \in DOMAIN _cache[T]
       IN /\ _cache' = _cache
          /\ registered =>
               /\ lastOp'.err = NoError
               /\ Len(nodes') = Len(nodes) + 1
               /\ nodes'[Len(nodes')].type = "EXTERNAL_ADDRESS"
               /\ nodes'[Len(nodes')].value =
                    Val(lastOp'.arg.i, "", _cache[T][BuilderEnvAddr])
               /\ curr' = Len(nodes')
          /\ ~registered =>
               /\ lastOp'.err.kind = "UnregisteredType"
               /\ nodes' = nodes /\ _ref' = _ref /\ curr' = curr]_vars

C9_Witness ==
  /\ functionReferenceSet
  /\ lastOp.op = "addArgument" /\ lastOp.arg = AGadget
  /\ lastOp.err.kind = "UnregisteredType"
  /\ Len(ChainConstants) = 2
  /\ \A k \in 1..2 : ChainConstants[k].type = "EXTERNAL_ADDRESS"
  /\ ChainConstants[1].value.x = ChainConstants[2].value.x

(***************************************************************************)
(* SpecRender: a FunctionSet builder whose chain was assembled with the    *)
(* raw installArgument(type, value), one constant of any tag per node; it  *)
(* is invoked and torn down.                                               *)
(***************************************************************************)
RenderConstants ==
  { [type |-> "STRING", value |-> Val(0, "s", 0)],
    [type |-> "SYMBOL", value |-> Val(0, "TRUE", 0)],
    [type |-> "INSTANCE_NAME", value |-> Val(0, "obj", 0)],
    [type |-> "INTEGER", value |-> Val(255, "", 0)],
    [type |-> "INTEGER", value |-> Val(-2, "", 0)],
    [type |-> "FLOAT", value |-> Val(-150, "", 0)],
    [type |-> "EXTERNAL_ADDRESS", value |-> Val(26, "", 0)],
    [type |-> "INSTANCE_ADDRESS", value |-> Val(27, "", 0)],
    [type |-> "MULTIFIELD", value |-> Val(28, "", 0)],
    [type |-> "FACT_ADDRESS", value |-> Val(29, "", 0)] }

RenderChains ==
  UNION {[1..n -> RenderConstants] : n \in 0..MaxRenderLen}

\* the expression memory after installArgument(c[1]), ..., installArgument(c[n])
InstalledChain(c) ==
  [k \in DOMAIN c |->
     [Node(c[k].type, c[k].value) EXCEPT
        !.inst = 1, !.nextArg = IF k < Len(c) THEN k + 1 ELSE NULL]]

InitRender ==
  /\ builder = "alive"
  /\ functionReferenceSet = TRUE
  /\ _function = "echo"
  /\ \E c \in RenderChains :
       /\ nodes = InstalledChain(c)
       /\ _ref = [init |-> TRUE, type |-> "FCALL", value |-> "echo",
                  argList |-> IF c = <<>> THEN NULL ELSE 1]
       /\ curr = Len(c)
       /\ passed = [k \in DOMAIN c |->
                      Arg("raw", c[k].value.i, c[k].value.s, c[k].type, <<>>)]
  /\ outResult = Unwritten
  /\ lastOp = Op("installArgument", NoArg, "", 0, NoError, <<>>, "", 0)
  /\ crashed = FALSE
  /\ failedAdd = FALSE
  /\ _cache = [T \in HostTypes |-> <<>>]
  /\ engines = <<[addr |-> BuilderEnvAddr, alive |-> TRUE, destroyCalls |-> 0,
                  nextId |-> 1, registered |-> {}]>>
  /\ handles = <<[env |-> BuilderEnvAddr, reclaim |-> TRUE, live |-> TRUE,
                  created |-> TRUE, eng |-> 1]>>

NextRender ==
  \/ \E evaluationError \in BOOLEAN : Invoke(evaluationError)
  \/ Destroy

SpecRender == InitRender /\ [][NextRender]_vars

\* the segment the diagnostic text is to hold for one node: a blank, the
\* opening mark, the payload, the closing mark, a blank
Segment(prefix, body, suffix) == <<" ", prefix>> \o body \o <<suffix, " ">>

Decimal(n) == IF n >= 0 THEN ToBase(n, 10) ELSE <<"-">> \o ToBase(-n, 10)

AddressSegment(tag, value) ==
  Segment(tag \o "<0x", InsertPointer(NewStream, PointerOf(value)).out, ">")

NodeSegment(node) ==
  CASE node.type = "STRING" -> Segment("\"", <<node.value.s>>, "\"")
    [] node.type = "SYMBOL" -> Segment("", <<node.value.s>>, "")
    [] node.type = "INSTANCE_NAME" -> Segment("[", <<node.value.s>>, "]")
    [] node.type = "INTEGER" -> Segment("", Decimal(node.value.i), "")
    [] node.type = "FLOAT" ->
         Segment("", InsertDouble(NewStream, node.value.i).out, "")
    [] node.type = "INSTANCE_ADDRESS" -> AddressSegment("InstanceAddress", node.value)
    [] node.type = "EXTERNAL_ADDRESS" -> AddressSegment("ExternalAddress", node.value)
    [] node.type = "MULTIFIELD" -> AddressSegment("MULTIFIELD", node.value)
    [] OTHER -> AddressSegment("UNKNOWN_TYPE", node.value)

RECURSIVE Segments(_, _)
Segments(ns, c) ==
  IF c = <<>> THEN <<>> ELSE NodeSegment(ns[Head(c)]) \o Segments(ns, Tail(c))

\* C7: the text of a failed invoke is the function name followed by one
\* segment per node of the chain, in chain order, each segment fixed by the
\* node's own tag and payload: texts quoted, bare or bracketed, integers and
\* floats in decimal, addresses as the tag name and <hex-pointer>.
C7_SegmentPerNode ==
  lastOp.op = "invoke" /\ lastOp.err.kind = "Invocation" =>
    lastOp.err.msg =
      <<"ERROR: invocation of ", "(", _function, " ">>
        \o Segments(nodes, Chain(nodes, _ref.argList))
        \o <<")", " yielded an error!">>

(***************************************************************************)
(* SpecEnv: Environment objects over engine instances, and the registry.   *)
(* The engine's allocator may place a new instance at the raw address of   *)
(* one that has been destroyed.                                            *)
(***************************************************************************)
EnvAddrs == 1..MaxEnvAddrs

\* Environment::Environment(): env = CreateEnvironment(), which returns the
\* address of a new instance, or null
CreateEnv(addr) ==
  /\ ~crashed
  /\ Len(handles) < MaxHandles
  /\ IF addr = NULL
     THEN /\ lastOp' = Op("Environment", NoArg, "", 0,
                  Problem("EngineCreation",
                          <<"Could not create a CLIPS environment!">>),
                  <<"CreateEnvironment">>, "", NULL)
          /\ UNCHANGED <<engines, handles>>
     ELSE /\ Len(engines) < MaxEngines
          /\ EngineAt(addr) = 0
          /\ engines' = Append(engines,
                           [addr |-> addr, alive |-> TRUE, destroyCalls |-> 0,
                            nextId |-> 1, registered |-> {}])
          /\ handles' = Append(handles,
                           [env |-> addr, reclaim |-> TRUE, live |-> TRUE,
                            created |-> TRUE, eng |-> Len(engines) + 1])
          /\ lastOp' = Op("Environment", NoArg, "", Len(handles) + 1, NoError,
                          <<"CreateEnvironment">>, "", addr)
  /\ UNCHANGED <<builderVars, _cache>>

\* Environment::Environment(void* theEnv): a wrapper over an existing instance
WrapEnv(theEnv) ==
  /\ ~crashed
  /\ Len(handles) < MaxHandles
  /\ EngineAt(theEnv) # 0
  /\ handles' = Append(handles,
                       [env |-> theEnv, reclaim |-> FALSE, live |-> TRUE,
                        created |-> FALSE, eng |-> EngineAt(theEnv)])
  /\ lastOp' = Op("Environment(void*)", NoArg, "", Len(handles) + 1, NoError,
                  <<>>, "", 0)
  /\ UNCHANGED <<builderVars, _cache, engines>>

\* the implicit copy constructor Environment(const Environment&): the class
\* declares no copy control, so the copy holds the same reclaim and env
CopyEnv(h) ==
  /\ ~crashed
  /\ Len(handles) < MaxHandles
  /\ h \in DOMAIN handles /\ handles[h].live
  /\ handles' = Append(handles, [handles[h] EXCEPT !.created = FALSE])
  /\ lastOp' = Op("Environment(const Environment&)", NoArg, "",
                  Len(handles) + 1, NoError, <<>>, "", 0)
  /\ UNCHANGED <<builderVars, _cache, engines>>

\* an Environment object whose lifetime has ended
Gone == [env |-> NULL, reclaim |-> FALSE, live |-> FALSE,
         created |-> FALSE, eng |-> 0]

\* an engine instance after DestroyEnvironment: its memory, with the type ids
\* it handed out, is released
Destroyed(engine) ==
  [addr |-> engine.addr, alive |-> FALSE,
   destroyCalls |-> engine.destroyCalls + 1, nextId |-> 0, registered |-> {}]

\* a destructor that calls DestroyEnvironment and lets its result go
DestroyEnv_FailureIgnored(h, destroyed) ==
  /\ ~crashed
  /\ h \in DOMAIN handles /\ handles[h].live
  /\ handles' = [handles EXCEPT ![h] = Gone]
  /\ IF handles[h].reclaim /\ handles[h].env # NULL
     THEN LET at == EngineAt(handles[h].env)
              e == IF at # 0 THEN at ELSE handles[h].eng
          IN \E fault \in {FALSE, at = 0} :
               /\ engines' = [engines EXCEPT ![e] =
                                 IF destroyed /\ ~fault THEN Destroyed(@)
                                 ELSE [@ EXCEPT !.destroyCalls = @ + 1]]
               /\ crashed' = fault
               /\ lastOp' = Op("~Environment", NoArg, "", h, NoError,
                       <<"DestroyEnvironment">>,
                       IF fault THEN ""
                       ELSE IF destroyed THEN "TRUE" ELSE "FALSE", 0)
     ELSE /\ lastOp' = Op("~Environment", NoArg, "", h, NoError, <<>>, "", 0)
          /\ UNCHANGED <<engines, crashed>>
  /\ UNCHANGED <<builder, functionReferenceSet, _function, _ref, curr, nodes,
                 outResult, passed, failedAdd, _cache>>

\* Environment::~Environment(): DestroyEnvironment returns destroyed (TRUE or
\* FALSE); the throw out of the destructor ends the process.  When the
\* instance at env has been destroyed already, the call works on released
\* memory: it may also end the process before it returns.
DestroyEnv(h, destroyed) ==
  /\ ~crashed
  /\ h \in DOMAIN handles /\ handles[h].live
  /\ handles' = [handles EXCEPT ![h] = Gone]
  /\ IF handles[h].reclaim /\ handles[h].env # NULL
     THEN LET at == EngineAt(handles[h].env)
              e == IF at # 0 THEN at ELSE handles[h].eng
          IN \E fault \in {FALSE, at = 0} :
               /\ engines' = [engines EXCEPT ![e] =
                                 IF destroyed /\ ~fault THEN Destroyed(@)
                                 ELSE [@ EXCEPT !.destroyCalls = @ + 1]]
               /\ crashed' = (fault \/ ~destroyed)
               /\ lastOp' = Op("~Environment", NoArg, "", h,
                       IF fault \/ destroyed THEN NoError
                       ELSE Problem("EngineTeardown",
                              <<"Could not destroy the given CLIPS environment!">>),
                       <<"DestroyEnvironment">>,
                       IF fault THEN ""
                       ELSE IF destroyed THEN "TRUE" ELSE "FALSE", 0)
     ELSE /\ lastOp' = Op("~Environment", NoArg, "", h, NoError, <<>>, "", 0)
          /\ UNCHANGED <<engines, crashed>>
  /\ UNCHANGED <<builder, functionReferenceSet, _function, _ref, curr, nodes,
                 outResult, passed, failedAdd, _cache>>

\* Environment::getExternalAddressId<T>()
GetExternalAddressId(h, T) ==
  /\ ~crashed
  /\ h \in DOMAIN handles /\ handles[h].live
  /\ LET r == getExternalAddressId(_cache, T, handles[h].env)
     IN lastOp' = Op("getExternalAddressId", NoArg, T, h, r.err, <<>>, "", r.id)
  /\ UNCHANGED <<builderVars, _cache, engines, handles>>

InitEnv ==
  /\ builder = "destroyed"
  /\ functionReferenceSet = FALSE
  /\ _function = ""
  /\ _ref = [init |-> FALSE, type |-> "", value |-> "", argList |-> NULL]
  /\ curr = NULL
  /\ nodes = <<>>
  /\ outResult = Unwritten
  /\ lastOp = Op("", NoArg, "", 0, NoError, <<>>, "", 0)
  /\ crashed = FALSE
  /\ passed = <<>>
  /\ failedAdd = FALSE
  /\ _cache = [T \in HostTypes |-> <<>>]
  /\ engines = <<>>
  /\ handles = <<>>

NextEnv ==
  \/ \E addr \in EnvAddrs \cup {NULL} : CreateEnv(addr)
  \/ \E theEnv \in EnvAddrs : WrapEnv(theEnv)
  \/ \E h \in 1..MaxHandles : CopyEnv(h)
  \/ \E h \in 1..MaxHandles, destroyed \in BOOLEAN : DestroyEnv(h, destroyed)
  \/ \E h \in 1..MaxHandles, T \in HostTypes : RegisterExternalAddressType(h, T)
  \/ \E h \in 1..MaxHandles, T \in HostTypes : GetExternalAddressId(h, T)

SpecEnv == InitEnv /\ [][NextEnv]_vars

\* C10: a lookup through a handle on a live engine instance fails with
\* UnregisteredTypeError exactly when no registerType was performed for that
\* instance and that host type, and a failed lookup adds no entry.
C10_LookupFailsIffUnregistered ==
  [][lastOp'.op = "getExternalAddressId" =>
       LET e == EngineAt(handles[lastOp'.h].env)
       IN e # 0 =>
            /\ (lastOp'.err.kind = "UnregisteredType")
                 <=> lastOp'.name \notin engines[e].registered
            /\ _cache' = _cache]_vars

\* the raw address a step's lookup or registration is made for
OpEnv == handles[lastOp'.h].env

\* the step registers host type T for the raw address a
RegistersPair(T, a) ==
  /\ lastOp'.op = "registerExternalAddressType"
  /\ lastOp'.name = T
  /\ OpEnv = a

\* C11: an id the registry holds for a pair (engine instance, host type)
\* stays as it is over every step that is not a registration of that very
\* pair (lookups, registrations of other pairs, creation, wrapping and
\* destruction of handles); a lookup for a pair the registry holds returns
\* the id held, without error; a lookup leaves the registry unchanged; a
\* first registration of a pair stores the id the engine returned.
C11_RegistryReadIsIdempotent ==
  [][/\ \A T \in HostTypes : \A a \in DOMAIN _cache[T] :
          ~RegistersPair(T, a) =>
             a \in DOMAIN _cache'[T] /\ _cache'[T][a] = _cache[T][a]
     /\ lastOp'.op = "getExternalAddressId" =>
          /\ _cache' = _cache
          /\ OpEnv \in DOMAIN _cache[lastOp'.name] =>
                /\ lastOp'.err = NoError
                /\ lastOp'.id = _cache[lastOp'.name][OpEnv]
     /\ \A T \in HostTypes : \A a \in EnvAddrs :
          RegistersPair(T, a) /\ a \notin DOMAIN _cache[T] =>
             a \in DOMAIN _cache'[T] /\ _cache'[T][a] = lastOp'.id]_vars

\* a lookup that returned the id of its pair while the registry also holds
\* entries of another host type and of another engine instance
C11_Witness ==
  /\ lastOp.op = "getExternalAddressId"
  /\ lastOp.err = NoError
  /\ lastOp.id = _cache[lastOp.name][handles[lastOp.h].env]
  /\ \E T \in HostTypes \ {lastOp.name} : handles[lastOp.h].env \in DOMAIN _cache[T]
  /\ \E a \in DOMAIN _cache[lastOp.name] : a # handles[lastOp.h].env

\* C12: a registration of a pair stores the id the engine returned for it,
\* also when the registry already holds an id for the pair, and a lookup
\* returns the id the registry holds: after registrations with id1 then id2
\* the lookups return id2.
C12_LastWriteWins ==
  [][/\ lastOp'.op = "registerExternalAddressType" =>
          /\ OpEnv \in DOMAIN _cache'[lastOp'.name]
          /\ _cache'[lastOp'.name][OpEnv] = lastOp'.id
     /\ lastOp'.op = "getExternalAddressId"
          /\ OpEnv \in DOMAIN _cache[lastOp'.name] =>
            lastOp'.id = _cache[lastOp'.name][OpEnv]]_vars

(***************************************************************************)
(* SpecCast: host pointers wrapped as external addresses and cast back,    *)
(* over engine instances that are created and registered with.  A value    *)
(* wrapped through one handle may be cast through another.                 *)
(***************************************************************************)
\* the host objects and their static types
HostPointers == {AWidget, AGadget}

HostTypeOf(p) == (CHOOSE a \in HostPointers : a.i = p).t

\* addExternalAddress<T>(value) stored into a DataObject with
\* SetDataObjectType / SetDataObjectValue, as a host function returns it
ReturnExternalAddress(h, a) ==
  /\ ~crashed
  /\ h \in DOMAIN handles /\ handles[h].live
  /\ LET r == addExternalAddress(_cache, handles[h].env, a.t, a.i)
     IN /\ outResult' = IF r.err.kind # "none" THEN outResult
                        ELSE [written |-> TRUE, type |-> "EXTERNAL_ADDRESS",
                              value |-> r.value]
        /\ lastOp' = Op("addExternalAddress", a, a.t, h, r.err, <<>>, "", 0)
  /\ UNCHANGED <<builder, functionReferenceSet, _function, _ref, curr, nodes,
                 crashed, passed, failedAdd, _cache, engines, handles>>

\* Environment::fromExternalAddress<T>(&outResult); the operation's record
\* holds the T* returned
FromExternalAddress(h, T) ==
  /\ ~crashed
  /\ h \in DOMAIN handles /\ handles[h].live
  /\ outResult.written /\ outResult.type = "EXTERNAL_ADDRESS"
  /\ LET r == fromExternalAddress(_cache, handles[h].env, T, outResult)
     IN lastOp' = Op("fromExternalAddress",
                     IF r.err.kind = "none" THEN Arg("ptr", r.p, "", T, <<>>)
                     ELSE NoArg,
                     T, h, r.err, <<>>, "", 0)
  /\ UNCHANGED <<builderVars, _cache, engines, handles>>

NextCast ==
  \/ \E addr \in EnvAddrs : CreateEnv(addr)
  \/ \E h \in 1..MaxHandles, T \in HostTypes : RegisterExternalAddressType(h, T)
  \/ \E h \in 1..MaxHandles, a \in HostPointers : ReturnExternalAddress(h, a)
  \/ \E h \in 1..MaxHandles, T \in HostTypes : FromExternalAddress(h, T)

SpecCast == InitEnv /\ [][NextCast]_vars

\* the step casts the value in outResult to T through a handle whose
\* instance's raw address is OpEnv
CastStep == lastOp'.op = "fromExternalAddress"

CastRegistered == OpEnv \in DOMAIN _cache[lastOp'.name]

CastReturnsPointer ==
  /\ lastOp'.err = NoError
  /\ lastOp'.arg = Arg("ptr", outResult.value.i, "", lastOp'.name, <<>>)

DestroyCalled == \E k \in DOMAIN lastOp'.calls : lastOp'.calls[k] = "DestroyEnvironment"

\* the step is an operation of (or the construction of) the handle h
StepOf(h) == lastOp'.h = h

\* a handle that does not hold the reclaim flag calls destroy in no step
NonOwnerNeverDestroys ==
  [][\A h \in DOMAIN handles :
       handles[h].live /\ ~handles[h].reclaim /\ StepOf(h) => ~DestroyCalled]_vars

\* C14: destroy is called only in the destruction of a handle, and only of
\* a handle that itself created the instance; a handle constructed as a
\* wrapper calls it in no step.
C14_OnlyTheCreatorDestroys ==
  [][DestroyCalled =>
       /\ lastOp'.op = "~Environment"
       /\ handles[lastOp'.h].created
       /\ handles[lastOp'.h].reclaim]_vars

\* the live handles that hold the reclaim flag for the raw address a
Owners(a) ==
  {h \in DOMAIN handles :
     handles[h].live /\ handles[h].reclaim /\ handles[h].env = a}

\* C15: destroy is called at most once on every engine instance, and an
\* instance destroy has not been called on has exactly one owning handle.
C15_OneOwnerOneDestroy ==
  \A e \in DOMAIN engines :
    /\ engines[e].destroyCalls <= 1
    /\ engines[e].alive /\ engines[e].destroyCalls = 0 =>
         Cardinality(Owners(engines[e].addr)) = 1

\* C16: when CreateEnvironment returns null the constructor throws
\* EngineCreationError, no handle and no instance come into existence and
\* the process goes on; no live handle holds the reclaim flag over a null
\* env, so destroy is not called for a failed creation; when the destroy
\* call of an owning handle returns FALSE the outcome is EngineTeardownError
\* and the process is terminated; a terminated process takes no step.
C16_CreationAndTeardownFailures ==
  [][/\ lastOp'.op = "Environment" /\ lastOp'.id = NULL =>
          /\ lastOp'.err.kind = "EngineCreation"
          /\ lastOp'.calls = <<"CreateEnvironment">>
          /\ UNCHANGED <<handles, engines, crashed>>
     /\ \A h \in DOMAIN handles' :
          handles'[h].live /\ handles'[h].reclaim => handles'[h].env # NULL
     /\ lastOp'.op = "~Environment" /\ lastOp'.raw = "FALSE" =>
          /\ lastOp'.err.kind = "EngineTeardown"
          /\ crashed'
     /\ lastOp'.op = "~Environment" /\ lastOp'.raw = "TRUE" =>
          lastOp'.err = NoError /\ ~crashed'
     /\ crashed => UNCHANGED vars]_vars

\* a terminated process: the destroy call of an owning handle failed, after
\* a creation had failed and another had succeeded
C16_Witness ==
  /\ crashed
  /\ lastOp.op = "~Environment"
  /\ lastOp.err.kind = "EngineTeardown"
  /\ \E e \in DOMAIN engines : engines[e].alive /\ engines[e].destroyCalls = 1

(***************************************************************************)
(* Value extraction: extractData(Environment*, DataObjectPtr, T&).  A host *)
(* value is an Arg record: its kind, a number i, a text s, a pointer type  *)
(* t.  Floating point numbers are counted in hundredths; a float holds     *)
(* only the multiples of FloatStep.                                        *)
(***************************************************************************)
FloatStep == 4

HostValue(kind, i, s) == Arg(kind, i, s, "", <<>>)

TextTags == {"SYMBOL", "STRING", "INSTANCE_NAME"}

\* what a DOPTo... macro reads from a hash node of another kind
IndeterminateNumbers == {0, -1}
IndeterminateTexts == {"", "?"}

\* (int) of the long long of an integer hash node; every integer of this
\* model lies in the int32 range, on which the conversion keeps the value
EnvDOPToInteger(dobj) ==
  IF dobj.type = "INTEGER" THEN {dobj.value.i} ELSE IndeterminateNumbers
EnvDOPToLong(dobj) ==
  IF dobj.type = "INTEGER" THEN {dobj.value.i} ELSE IndeterminateNumbers
EnvDOPToDouble(dobj) ==
  IF dobj.type = "FLOAT" THEN {dobj.value.i} ELSE IndeterminateNumbers
\* (float) of the double: rounded to what a float holds
EnvDOPToFloat(dobj) == {d - (d % FloatStep) : d \in EnvDOPToDouble(dobj)}
EnvDOPToString(dobj) ==
  IF dobj.type \in TextTags THEN {dobj.value.s} ELSE IndeterminateTexts

\* a boolean extraction that looks at the value only
extractDataBool_TagIgnored(dobj) == dobj.value # EnvFalseSymbol

\* extractData(env, dobj, bool& value)
extractDataBool(dobj) ==
  (dobj.value # EnvFalseSymbol) /\ (dobj.type = "SYMBOL")

\* extractData(env, dobj, T& value) for T = bool, int32, int64, float,
\* double, std::string: the values the caller's variable may hold afterwards
extractData(kind, dobj) ==
  CASE kind = "bool" ->
         {HostValue("bool", IF extractDataBool(dobj) THEN 1 ELSE 0, "")}
    [] kind = "int32" -> {HostValue(kind, n, "") : n \in EnvDOPToInteger(dobj)}
    [] kind = "int64" -> {HostValue(kind, n, "") : n \in EnvDOPToLong(dobj)}
    [] kind = "float" -> {HostValue(kind, n, "") : n \in EnvDOPToFloat(dobj)}
    [] kind = "double" -> {HostValue(kind, n, "") : n \in EnvDOPToDouble(dobj)}
    [] kind = "string" -> {HostValue(kind, 0, t) : t \in EnvDOPToString(dobj)}

(***************************************************************************)
(* SpecCall: funcall and loadFile on one Environment.                      *)
(***************************************************************************)
\* a funcall that takes status 0 for the failure
funcall_StatusInverted(functionName, args, status) ==
  [err |-> IF status = 0
           THEN Problem("Call", <<"Function call of (", functionName, " ",
                                  args, ") failed!">>)
           ELSE NoError,
   calls |-> <<"EnvFunctionCall">>]

\* Environment::funcall(functionName, args, obj): EnvFunctionCall returns
\* status
funcall(functionName, args, status) ==
  [err |-> IF status # 0
           THEN Problem("Call", <<"Function call of (", functionName, " ",
                                  args, ") failed!">>)
           ELSE NoError,
   calls |-> <<"EnvFunctionCall">>]

\* loadFile with the two failure cases exchanged
loadFile_CasesSwapped(path, result) ==
  CASE result = -1 -> Problem("Load", <<"Unable to load file: ", path>>)
    [] result = 0 -> Problem("Parse", <<"Unable to parse file: ", path>>)
    [] OTHER -> NoError

\* Environment::loadFile(path): the switch on the result of EnvLoad
loadFile(path, result) ==
  CASE result = -1 -> Problem("Parse", <<"Unable to parse file: ", path>>)
    [] result = 0 -> Problem("Load", <<"Unable to load file: ", path>>)
    [] OTHER -> NoError

\* the overloads of funcall: those that hand the caller's DataObject to the
\* engine, those that use a local one, those that convert the local one
ObjOverloads == {"name_ret", "name_args_obj"}
NilOverloads == {"name", "name_args"}
ConvertingOverloads == {"string", "bool", "int64"}
\* the overloads that pass "" for the argument string
NoArgsOverloads == {"name", "name_ret"}

ArgStrings == {"", "1 2"}
CallStatuses == {0, 1, -1}
\* values the engine writes into the DataObject of a call
CallResults ==
  { [written |-> TRUE, type |-> "SYMBOL", value |-> EnvTrueSymbol],
    [written |-> TRUE, type |-> "SYMBOL", value |-> EnvFalseSymbol],
    [written |-> TRUE, type |-> "STRING", value |-> EnvAddSymbol("s")],
    [written |-> TRUE, type |-> "INTEGER", value |-> EnvAddLong(255)] }
\* what the caller's output variable holds before the call
InitialRets ==
  { HostValue("string", 0, "old"), HostValue("bool", 0, ""),
    HostValue("bool", 1, ""), HostValue("int64", 7, "") }

\* a DataObject as part of an operation's record
AsArg(dobj) == Arg("raw", dobj.value.i, dobj.value.s, dobj.type, <<>>)

\* Environment::funcall, every overload.  The record holds the overload, the
\* status, the argument string and, for a converting overload, the caller's
\* variable before and after and the local DataObject.
Funcall(h, overload, functionName, args, status, result, ret) ==
  /\ ~crashed
  /\ h \in DOMAIN handles /\ handles[h].live
  /\ overload \in NoArgsOverloads => args = ""
  /\ overload \in ConvertingOverloads <=> ret # NoArg
  /\ overload \in ConvertingOverloads => ret.k = overload
  /\ LET r == funcall(functionName, args, status)
     IN /\ outResult' = IF overload \in ObjOverloads THEN result ELSE outResult
        /\ \E after \in (IF overload \notin ConvertingOverloads THEN {NoArg}
                         ELSE IF r.err.kind # "none" THEN {ret}
                         ELSE extractData(overload, result)) :
             lastOp' = Op("funcall",
                          Arg(overload, status, args, "",
                              IF overload \in ConvertingOverloads
                              THEN <<ret, after, AsArg(result)>> ELSE <<>>),
                          functionName, h, r.err, r.calls, "", 0)
  /\ UNCHANGED <<builder, functionReferenceSet, _function, _ref, curr, nodes,
                 crashed, passed, failedAdd, _cache, engines, handles>>

SourcePaths == {"rules.clp", "facts.clp"}
LoadResults == {-1, 0, 1, 2}

\* Environment::loadFile(path); EnvLoad returns result
LoadFile(h, path, result) ==
  /\ ~crashed
  /\ h \in DOMAIN handles /\ handles[h].live
  /\ lastOp' = Op("loadFile", NoArg, path, h, loadFile(path, result),
                  <<"EnvLoad">>, "", result)
  /\ UNCHANGED <<builderVars, _cache, engines, handles>>

InitCall ==
  /\ builder = "destroyed"
  /\ functionReferenceSet = FALSE
  /\ _function = ""
  /\ _ref = [init |-> FALSE, type |-> "", value |-> "", argList |-> NULL]
  /\ curr = NULL
  /\ nodes = <<>>
  /\ outResult = Unwritten
  /\ lastOp = Op("Environment", NoArg, "", 1, NoError,
                 <<"CreateEnvironment">>, "", BuilderEnvAddr)
  /\ crashed = FALSE
  /\ passed = <<>>
  /\ failedAdd = FALSE
  /\ _cache = [T \in HostTypes |-> <<>>]
  /\ engines = <<[addr |-> BuilderEnvAddr, alive |-> TRUE, destroyCalls |-> 0,
                  nextId |-> 1, registered |-> {}]>>
  /\ handles = <<[env |-> BuilderEnvAddr, reclaim |-> TRUE, live |-> TRUE,
                  created |-> TRUE, eng |-> 1]>>

NextCall ==
  \/ \E overload \in ObjOverloads \cup NilOverloads \cup ConvertingOverloads,
        functionName \in FunctionNames, args \in ArgStrings,
        status \in CallStatuses, result \in CallResults,
        ret \in InitialRets \cup {NoArg} :
       Funcall(1, overload, functionName, args, status, result, ret)
  \/ \E path \in SourcePaths, result \in LoadResults : LoadFile(1, path, result)

SpecCall == InitCall /\ [][NextCall]_vars

\* C17: a funcall succeeds exactly when the raw call returned status 0; on
\* any other status it throws CallError whose text holds the function name
\* and the argument string; the raw call is made once; a converting overload
\* leaves the caller's variable as it was on CallError and sets it to the
\* conversion of the result on success.
C17_FuncallFollowsStatus ==
  [][lastOp'.op = "funcall" =>
       LET a == lastOp'.arg
       IN /\ (lastOp'.err = NoError) <=> (a.i = 0)
          /\ a.i # 0 =>
               /\ lastOp'.err.kind = "Call"
               /\ lastOp'.err.msg[2] = lastOp'.name
               /\ lastOp'.err.msg[4] = a.s
          /\ lastOp'.calls = <<"EnvFunctionCall">>
          /\ a.k \in ConvertingOverloads =>
               /\ a.i # 0 => a.items[2] = a.items[1]
               /\ a.i = 0 =>
                    a.items[2] \in
                      extractData(a.k, [written |-> TRUE, type |-> a.items[3].t,
                                        value |-> Val(a.items[3].i, a.items[3].s, 0)])
          /\ a.k \notin ObjOverloads => outResult' = outResult]_vars

\* a failed call through the overload that converts to bool, the caller's
\* variable holding TRUE before, the engine's result being FALSE
C17_Witness ==
  /\ lastOp.op = "funcall"
  /\ lastOp.err.kind = "Call"
  /\ lastOp.arg.k = "bool"
  /\ lastOp.arg.s = "1 2"
  /\ lastOp.arg.items[1] = HostValue("bool", 1, "")
  /\ lastOp.arg.items[3].s = "FALSE"

\* C18: loadFile throws ParseError with the path when EnvLoad returns the
\* parse-error result, LoadError with the path when it returns the
\* could-not-open result, and nothing on every other result; it changes
\* nothing else.
C18_LoadResultMapping ==
  [][lastOp'.op = "loadFile" =>
       /\ lastOp'.id = -1 =>
            lastOp'.err = Problem("Parse", <<"Unable to parse file: ", lastOp'.name>>)
       /\ lastOp'.id = 0 =>
            lastOp'.err = Problem("Load", <<"Unable to load file: ", lastOp'.name>>)
       /\ lastOp'.id \notin {-1, 0} => lastOp'.err = NoError
       /\ lastOp'.calls = <<"EnvLoad">>
       /\ UNCHANGED <<outResult, _cache, engines, handles, crashed>>]_vars

\* the syntactically invalid rules.clp: ParseError with that path
C18_Witness ==
  /\ lastOp.op = "loadFile"
  /\ lastOp.id = -1
  /\ lastOp.name = "rules.clp"
  /\ lastOp.err.kind = "Parse"

(***************************************************************************)
(* SpecRoundTrip: a builder bound to echo, the function that returns its   *)
(* first argument, over an instance Widget is registered for; one argument *)
(* is added, the call is invoked and the result extracted.                 *)
(***************************************************************************)
RoundTripInputs ==
  { Arg("bool", 0, "", "", <<>>), Arg("bool", 1, "", "", <<>>),
    AInt, Arg("int32", -2, "", "", <<>>), Arg("int32", 0, "", "", <<>>),
    Arg("int64", 2000000000, "", "", <<>>), Arg("int64", -1, "", "", <<>>),
    Arg("float", 0, "", "", <<>>), Arg("float", 2 * FloatStep, "", "", <<>>),
    Arg("float", -3 * FloatStep, "", "", <<>>),
    Arg("double", 150, "", "", <<>>), Arg("double", -7, "", "", <<>>),
    Arg("cstr", 0, "s", "", <<>>), Arg("cstr", 0, "", "", <<>>),
    AStr, Arg("string", 0, "", "", <<>>), Arg("string", 0, "FALSE", "", <<>>),
    Arg("string", 2, "s", "", <<>>), Arg("string", 1, "", "", <<>>),
    AWidget, AGadget }

\* tagged values handed to installArgument(type, value) as they are
RawInputs ==
  { Arg("raw", 0, "foo", "SYMBOL", <<>>), Arg("raw", 0, "TRUE", "SYMBOL", <<>>),
    Arg("raw", 0, "FALSE", "SYMBOL", <<>>), Arg("raw", 0, "", "SYMBOL", <<>>),
    Arg("raw", 0, "foo", "INSTANCE_NAME", <<>>),
    Arg("raw", 0, "FALSE", "INSTANCE_NAME", <<>>),
    Arg("raw", 9, "", "MULTIFIELD", <<>>), Arg("raw", 9, "", "INSTANCE_ADDRESS", <<>>),
    Arg("raw", 9, "", "FACT_ADDRESS", <<>>), Arg("raw", 0, "", "FACT_ADDRESS", <<>>) }

ExtractKinds == {"bool", "int32", "int64", "float", "double", "string"}

\* Environment::extractValue(&outResult, value) for a T& value
ExtractData(kind) ==
  /\ ~crashed
  /\ outResult.written
  /\ \E v \in extractData(kind, outResult) :
       lastOp' = Op("extractData", v, "", 1, NoError, <<>>, "", 0)
  /\ UNCHANGED <<builderVars, _cache, engines, handles>>

InitRoundTrip ==
  /\ builder = "alive"
  /\ functionReferenceSet = TRUE
  /\ _function = "echo"
  /\ _ref = GetFunctionReference("echo").ref
  /\ curr = NULL
  /\ nodes = <<>>
  /\ outResult = Unwritten
  /\ lastOp = Op("setFunctionReference", NoArg, "echo", 0, NoError,
                 <<"GetFunctionReference">>, "", 0)
  /\ crashed = FALSE
  /\ passed = <<>>
  /\ failedAdd = FALSE
  /\ _cache = [T \in HostTypes |->
                 IF T \in RegisteredTypes THEN (BuilderEnvAddr :> 1) ELSE <<>>]
  /\ engines = <<[addr |-> BuilderEnvAddr, alive |-> TRUE, destroyCalls |-> 0,
                  nextId |-> 2, registered |-> RegisteredTypes]>>
  /\ handles = <<[env |-> BuilderEnvAddr, reclaim |-> TRUE, live |-> TRUE,
                  created |-> TRUE, eng |-> 1]>>

NextRoundTrip ==
  \/ \E a \in RoundTripInputs \cup RawInputs : nodes = <<>> /\ AddArgument(a)
  \/ \E evaluationError \in BOOLEAN : Invoke(evaluationError)
  \/ \E kind \in ExtractKinds : ExtractData(kind)
  \/ \E T \in HostTypes : FromExternalAddress(1, T)
  \/ Destroy

SpecRoundTrip == InitRoundTrip /\ [][NextRoundTrip]_vars

\* the tag value extraction reads for a host kind
ExpectedTag(kind) ==
  CASE kind = "bool" -> "SYMBOL"
    [] kind \in {"int32", "int64"} -> "INTEGER"
    [] kind \in {"float", "double"} -> "FLOAT"
    [] kind \in {"cstr", "string"} -> "STRING"
    [] kind = "ptr" -> "EXTERNAL_ADDRESS"

\* the state after a successful invoke of echo on the one argument v
Echoed(v) ==
  /\ lastOp.op = "invoke" /\ lastOp.err = NoError
  /\ passed = <<v>>

\* C19: after addArgument(v) and a successful invoke of echo, the result
\* carries the tag extraction reads for the kind of v, and the extraction
\* into the host type of v gives v (character data is extracted into a
\* std::string, a pointer with fromExternalAddress<T>).
C19_RoundTrip ==
  [][\A v \in RoundTripInputs :
       Echoed(v) =>
         /\ outResult.type = ExpectedTag(v.k)
         /\ lastOp'.op = "extractData" /\ v.k # "cstr" /\ lastOp'.arg.k = v.k =>
              lastOp'.arg = v
         /\ lastOp'.op = "extractData" /\ v.k = "cstr" /\ lastOp'.arg.k = "string" =>
              lastOp'.arg = HostValue("string", 0, v.s)
         /\ lastOp'.op = "fromExternalAddress" /\ v.k = "ptr" /\ lastOp'.name = v.t =>
              lastOp'.err = NoError /\ lastOp'.arg = v]_vars

\* C20: the boolean extracted from a tagged value is false for every tag
\* other than symbol, whatever the payload, false for the symbol FALSE and
\* true for every other symbol.
C20_BooleanExtraction ==
  [][lastOp'.op = "extractData" /\ lastOp'.arg.k = "bool" =>
       /\ outResult.type # "SYMBOL" => lastOp'.arg = HostValue("bool", 0, "")
       /\ outResult.type = "SYMBOL" /\ outResult.value.s = "FALSE" =>
            lastOp'.arg = HostValue("bool", 0, "")
       /\ outResult.type = "SYMBOL" /\ outResult.value.s # "FALSE" =>
            lastOp'.arg = HostValue("bool", 1, "")]_vars

\* a symbol that is neither TRUE nor FALSE, extracted as true
C20_Witness ==
  /\ lastOp.op = "extractData"
  /\ lastOp.arg = HostValue("bool", 1, "")
  /\ outResult.type = "SYMBOL"
  /\ outResult.value.s = "foo"

(***************************************************************************)
(* The function reference handed to the engine, under Spec.                *)
(***************************************************************************)
\* the engine primitives that read a function reference and its chain
ReferencePrimitives ==
  {"EvaluateExpression", "ExpressionDeinstall", "ReturnExpression"}

\* the step applies an engine primitive to &_ref
ReferencePrimitiveCalled ==
  \E k \in DOMAIN lastOp'.calls : lastOp'.calls[k] \in ReferencePrimitives

\* C21: evaluate, deinstall and reclaim are applied only to a function
\* reference that a setFunctionReference call has initialised, the teardown
\* of a builder that is still Unbound included.
C21_NoPrimitiveOnUninitialisedReference ==
  [][ReferencePrimitiveCalled => _ref.init]_vars

(***************************************************************************)
(* The lifetime of registry entries, under SpecEnv.                        *)
(***************************************************************************)
\* the step is the destruction of a handle that destroyed the instance at
\* the raw address a
DestroysInstanceAt(a) ==
  /\ lastOp'.op = "~Environment"
  /\ lastOp'.raw = "TRUE"
  /\ handles[lastOp'.h].env = a

\* the step is the creation of a new instance at the raw address a
CreatesInstanceAt(a) ==
  /\ lastOp'.op = "Environment"
  /\ lastOp'.err = NoError
  /\ lastOp'.id = a

\* C22: once an owning handle has destroyed the instance at a raw address,
\* the registry holds no id for that address under any host type, and a new
\* instance created at the address starts with no registrations.
C22_EntriesEndWithTheInstance ==
  [][\A a \in EnvAddrs :
       DestroysInstanceAt(a) \/ CreatesInstanceAt(a) =>
         \A T \in HostTypes : a \notin DOMAIN _cache'[T]]_vars
====
